---- MODULE Spec2Model ----
(***************************************************************************)
(* Model of the three command line helpers of the repository:              *)
(*   bin/testing/runselectedtests.py   (test selection runner)             *)
(*   .gitlab-ci/makepipelineconfig.py  (pipeline generator)                *)
(*   bin/doc/getparameterlist.py       (parameter scraper)                 *)
(*                                                                         *)
(* A Python string is modelled as a sequence of tokens.  A token is one    *)
(* character, or a run of characters that no operation of the scripts      *)
(* ever looks into (a test name, a fixed piece of a shell command, the     *)
(* word getParam).  The string operations of Python (partition, split,     *)
(* strip, count, join) are operators on such sequences.                    *)
(*                                                                         *)
(* Every script is a linear program; pc is its position.  The three        *)
(* scripts share no state, so each has a specification of its own over     *)
(* the same variables: SpecRunner, SpecGen, SpecScan, SpecRender, and      *)
(* SpecEnclosed for the pure function getEnclosedContent.                   *)
(***************************************************************************)
EXTENDS Integers, Sequences, FiniteSets, TLC

VARIABLES
    pc,            \* position of the running script
    args,          \* vars(parser.parse_args())
    configFile,    \* content of the JSON selection file: <<[name, target], ...>>
    config,        \* json.load(configFile), once loaded
    exitCode,      \* exit status of the script once pc = "exit"
    calls,         \* runner: the subprocess.run invocations so far, in order
    makeFile,      \* runner: content of TestMakeFile; <<>> while not written
    buildCommand,  \* generator: list of build command lines
    testCommand,   \* generator: list of test command lines
    template,      \* generator: content of the --template file, None if missing
    ymlFile,       \* generator: content of the --outfile file
    file,          \* scraper: the lines of the source file read so far
    lineIdx,       \* scraper: index enumerate() gives the next line
    parameters,    \* scraper: list of extracted parameter records
    errors,        \* scraper: dict lineIdx -> [line, message] of getParamsFromFile
    sortedParameterDict,  \* scraper: the merged entries, in the order of their keys
    tableEntries,  \* scraper: rendered table rows
    string,        \* getEnclosedContent: the argument string
    keys,          \* getEnclosedContent: <<openKey, closeKey>>
    result         \* getEnclosedContent: [kind, value] once it has returned or raised

vars == <<pc, args, configFile, config, exitCode, calls, makeFile, buildCommand,
          testCommand, template, ymlFile, file, lineIdx, parameters, errors,
          sortedParameterDict, tableEntries,
          string, keys, result>>

runnerVars == <<calls, makeFile>>
genVars == <<buildCommand, testCommand, template, ymlFile>>
scanVars == <<file, lineIdx, parameters, errors>>
renderVars == <<sortedParameterDict, tableEntries>>
encVars == <<string, keys, result>>

(***************************************************************************)
(* Bounds of the model.                                                    *)
(***************************************************************************)
MaxTests == 2        \* entries of a selection file
MaxStrLen == 5       \* length of the strings given to getEnclosedContent
MaxLines == 2        \* lines of a scanned file
MaxCalls == 3        \* accessor calls written on one source line
MaxParams == 3       \* parameter names handed to the rendering loop
MaxIndent == 2       \* width a user passes with --indentation

None == <<"None">>   \* Python's None, where a string is expected

\* value of result while nothing was returned or raised
NoResult == [kind |-> "none", value |-> <<>>]

(***************************************************************************)
(* Python string operations on token sequences.                            *)
(***************************************************************************)
\* The element of a set of one element.  Only({e(x) : x \in {v}}) is e(v)
\* with v evaluated once, whatever the number of places e uses x at.
Only(S) == CHOOSE x \in S : TRUE

\* s[i:] and s[:i] with 1-based i
From(s, i) == SubSeq(s, i, Len(s))
Upto(s, i) == SubSeq(s, 1, i)

\* sep stands in s at position i
MatchAt(s, sep, i) ==
    /\ i >= 1 /\ i + Len(sep) - 1 <= Len(s)
    /\ \A k \in 1..Len(sep) : s[i + k - 1] = sep[k]

\* index of the first occurrence of the non-empty sep in s at or after
\* start, 0 if there is none
FindFrom(s, sep, start) ==
    IF \E i \in start..Len(s) : MatchAt(s, sep, i)
    THEN CHOOSE i \in start..Len(s) :
            MatchAt(s, sep, i) /\ \A j \in start..(i - 1) : ~MatchAt(s, sep, j)
    ELSE 0

Find(s, sep) == FindFrom(s, sep, 1)

\* index of the last occurrence
RFind(s, sep) ==
    IF \E i \in 1..Len(s) : MatchAt(s, sep, i)
    THEN CHOOSE i \in 1..Len(s) :
            MatchAt(s, sep, i) /\ \A j \in (i + 1)..Len(s) : ~MatchAt(s, sep, j)
    ELSE 0

\* sep in s
Contains(s, sep) == Find(s, sep) # 0

\* s.partition(sep) : <<head, sep or '', tail>>
Partition(s, sep) ==
    Only({IF i = 0 THEN <<s, <<>>, <<>>>>
          ELSE <<Upto(s, i - 1), sep, From(s, i + Len(sep))>> :
          i \in {Find(s, sep)}})

\* s.rpartition(sep) : <<head, sep or '', tail>>
RPartition(s, sep) ==
    Only({IF i = 0 THEN <<<<>>, <<>>, s>>
          ELSE <<Upto(s, i - 1), sep, From(s, i + Len(sep))>> :
          i \in {RFind(s, sep)}})

\* number of non-overlapping occurrences of sep in s[start:]
RECURSIVE CountFrom(_, _, _)
CountFrom(s, sep, start) ==
    Only({IF i = 0 THEN 0 ELSE 1 + CountFrom(s, sep, i + Len(sep)) :
          i \in {FindFrom(s, sep, start)}})

\* s.count(sep)
Count(s, sep) == CountFrom(s, sep, 1)

\* the pieces of s[start:] between the occurrences of sep
RECURSIVE SplitFrom(_, _, _)
SplitFrom(s, sep, start) ==
    Only({IF i = 0 THEN <<From(s, start)>>
          ELSE <<SubSeq(s, start, i - 1)>> \o SplitFrom(s, sep, i + Len(sep)) :
          i \in {FindFrom(s, sep, start)}})

\* s.split(sep)
Split(s, sep) == SplitFrom(s, sep, 1)

\* s.lstrip(chars), s.rstrip(chars), s.strip(chars) : chars is a set of tokens
LStrip(s, chars) ==
    IF \A i \in 1..Len(s) : s[i] \in chars THEN <<>>
    ELSE From(s, CHOOSE i \in 1..Len(s) :
                    s[i] \notin chars /\ \A j \in 1..(i - 1) : s[j] \in chars)

RStrip(s, chars) ==
    IF \A i \in 1..Len(s) : s[i] \in chars THEN <<>>
    ELSE Upto(s, CHOOSE i \in 1..Len(s) :
                    s[i] \notin chars /\ \A j \in (i + 1)..Len(s) : s[j] \in chars)

Strip(s, chars) == RStrip(LStrip(s, chars), chars)

\* sep.join(list)
RECURSIVE Join(_, _)
Join(list, sep) ==
    IF list = <<>> THEN <<>>
    ELSE IF Len(list) = 1 THEN list[1]
    ELSE list[1] \o sep \o Join(Tail(list), sep)

\* concatenation of a list of strings
RECURSIVE Concat(_)
Concat(list) == IF list = <<>> THEN <<>> ELSE Head(list) \o Concat(Tail(list))

\* ' ' * n
RECURSIVE Spaces(_)
Spaces(n) == IF n <= 0 THEN <<>> ELSE <<" ">> \o Spaces(n - 1)

\* the set of sequences over S of length at most n
RECURSIVE SeqUpTo(_, _)
SeqUpTo(S, n) ==
    IF n = 0 THEN {<<>>}
    ELSE LET shorter == SeqUpTo(S, n - 1)
         IN shorter \cup {Append(s, x) : s \in {t \in shorter : Len(t) = n - 1}, x \in S}

Range(f) == {f[i] : i \in DOMAIN f}

(***************************************************************************)
(* The test selection mapping (JSON object: test name -> {target: ...}).   *)
(* json.load keeps the order of the file and the keys of an object are     *)
(* distinct.                                                               *)
(***************************************************************************)
TestNames == {<<"T1">>, <<"T2">>, <<"T3">>}
TargetNames == {<<"X">>, <<"Y">>}

Configs ==
    {c \in SeqUpTo([name : TestNames, target : TargetNames], MaxTests) :
        \A i, j \in 1..Len(c) : c[i].name = c[j].name => i = j}

\* list(config.keys())
ConfigKeys(c) == [i \in 1..Len(c) |-> c[i].name]

\* [tc['target'] for tc in config.values()]
ConfigTargets(c) == [i \in 1..Len(c) |-> c[i].target]

(***************************************************************************)
(* bin/testing/runselectedtests.py                                         *)
(***************************************************************************)
ReturnCodes == {0, 1}     \* exit status of an external tool: zero or not

BuildFlagArgs == {<<"-j4">>, <<"-k", " ", "-j2">>}
TestFlagArgs == {<<"-j4", " ", "--output-on-failure">>, <<"-V">>}
ScriptArgs == {<<>>, <<"bin", "/", "dune-ctest">>, <<".", "/", "dune-ctest">>}

RunnerInit ==
    /\ pc = "start"
    /\ args \in [all : BOOLEAN, config : {None, <<"tests.json">>},
                 script : ScriptArgs, build : BOOLEAN, test : BOOLEAN,
                 buildflags : BuildFlagArgs, testflags : TestFlagArgs]
    /\ configFile \in Configs
    /\ config = <<>>
    /\ exitCode = 0
    /\ calls = <<>>
    /\ makeFile = <<>>
    /\ buildCommand = <<>> /\ testCommand = <<>> /\ template = None /\ ymlFile = <<>>
    /\ file = <<>> /\ lineIdx = 0 /\ parameters = <<>> /\ errors = <<>>
    /\ sortedParameterDict = <<>> /\ tableEntries = <<>>
    /\ string = <<>> /\ keys = <<>> /\ result = NoResult

\* (mutation: the test for `config` together with `all` is missing)
FlagsFatalOnlyPhase(a) == ~a.build /\ ~a.test

\* lines 86-91: the two sys.exit(...) tests of the main block
FlagsFatal(a) ==
    \/ ~a.build /\ ~a.test
    \/ a.config # None /\ a.all

\* args['buildflags'].split(' '), args['testflags'].split(' ')
buildFlags == Split(args.buildflags, <<" ">>)
testFlags == Split(args.testflags, <<" ">>)

\* (mutation: subprocess.run without check=True, the exit status is ignored)
RunUnchecked(argv, rc, next) ==
    /\ calls' = Append(calls, [argv |-> argv, rc |-> rc])
    /\ pc' = next /\ exitCode' = exitCode

\* subprocess.run(argv, check=True): the call is recorded with its exit
\* status; a non-zero status raises CalledProcessError, which nothing catches
Run(argv, rc, next) ==
    /\ calls' = Append(calls, [argv |-> argv, rc |-> rc])
    /\ IF rc = 0
       THEN pc' = next /\ exitCode' = exitCode
       ELSE pc' = "exit" /\ exitCode' = 1

\* lines 84-95: parse the arguments, refuse the invalid combinations
CheckArgs ==
    /\ pc = "start"
    /\ IF FlagsFatal(args)
       THEN pc' = "exit" /\ exitCode' = 1
       ELSE pc' = (IF args.all THEN "all_build" ELSE "load") /\ exitCode' = exitCode
    /\ UNCHANGED <<args, configFile, config, runnerVars, genVars, scanVars,
                   renderVars, encVars>>

\* lines 99-101: if args['build']: make ... build_tests
BuildAll ==
    /\ pc = "all_build"
    /\ IF args.build
       THEN \E rc \in ReturnCodes :
                Run(<<<<"make">>>> \o buildFlags \o <<<<"build_tests">>>>, rc, "all_test")
       ELSE pc' = "all_test" /\ UNCHANGED <<calls, exitCode>>
    /\ UNCHANGED <<args, configFile, config, makeFile, genVars, scanVars,
                   renderVars, encVars>>

\* lines 102-104: if args['test']: ctest ...
TestAll ==
    /\ pc = "all_test"
    /\ IF args.test
       THEN \E rc \in ReturnCodes : Run(<<<<"ctest">>>> \o testFlags, rc, "exit")
       ELSE pc' = "exit" /\ UNCHANGED <<calls, exitCode>>
    /\ UNCHANGED <<args, configFile, config, makeFile, genVars, scanVars,
                   renderVars, encVars>>

\* lines 108-111: open(args['config']) and json.load; open(None) raises TypeError
LoadConfig ==
    /\ pc = "load"
    /\ IF args.config = None
       THEN pc' = "exit" /\ exitCode' = 1 /\ config' = config
       ELSE pc' = "sel_build" /\ exitCode' = exitCode /\ config' = configFile
    /\ UNCHANGED <<args, configFile, runnerVars, genVars, scanVars,
                   renderVars, encVars>>

\* the text buildTests writes to TestMakeFile
TestMakeFileText(c) ==
    <<"include CMakeFiles/Makefile2\n", "testselection: ">>
        \o Join(ConfigTargets(c), <<" ">>)

\* the argument list buildTests hands to make
BuildTestsCall(flags) ==
    <<<<"make">>, <<"-f">>, <<"TestMakeFile">>>> \o flags \o <<<<"testselection">>>>

\* lines 113-114 and buildTests (18-38)
BuildTests ==
    /\ pc = "sel_build"
    /\ IF args.build /\ config # <<>>
       THEN /\ makeFile' = TestMakeFileText(config)
            /\ \E rc \in ReturnCodes : Run(BuildTestsCall(buildFlags), rc, "sel_test")
       ELSE pc' = "sel_test" /\ UNCHANGED <<calls, exitCode, makeFile>>
    /\ UNCHANGED <<args, configFile, config, genVars, scanVars, renderVars, encVars>>

\* (mutation: the empty selection is not replaced by the no-op pattern)
TestFilterNoSubstitute(c) == ConfigKeys(c)

\* lines 43-46 of runTests: the names handed to -R
TestFilter(c) == IF ConfigKeys(c) = <<>> THEN <<<<"NOOP">>>> ELSE ConfigKeys(c)

\* line 49 of runTests: the program to call
TestProgram(script) ==
    IF script = <<>> THEN <<"dune-ctest">> ELSE <<".", "/">> \o LStrip(script, {".", "/"})

\* lines 49-51 of runTests: the whole argument list
RunTestsCall(c, script, flags) ==
    <<TestProgram(script)>> \o flags \o <<<<"-R">>>> \o TestFilter(c)

\* lines 115-116 and runTests (41-52)
RunTests ==
    /\ pc = "sel_test"
    /\ IF args.test
       THEN \E rc \in ReturnCodes :
                Run(RunTestsCall(config, args.script, testFlags), rc, "exit")
       ELSE pc' = "exit" /\ UNCHANGED <<calls, exitCode>>
    /\ UNCHANGED <<args, configFile, config, makeFile, genVars, scanVars,
                   renderVars, encVars>>

RunnerNext ==
    \/ CheckArgs
    \/ BuildAll
    \/ TestAll
    \/ LoadConfig
    \/ BuildTests
    \/ RunTests

SpecRunner == RunnerInit /\ [][RunnerNext]_vars

(***************************************************************************)
(* Claims about the test selection runner.                                 *)
(***************************************************************************)
IsBuildCall(c) == c.argv[1] = <<"make">>
IsTestCall(c) == ~IsBuildCall(c)
BuildCalls == {i \in 1..Len(calls) : IsBuildCall(calls[i])}
TestCalls == {i \in 1..Len(calls) : IsTestCall(calls[i])}

\* the names that follow -R in an argument list
FilterOf(c) == From(c.argv, Find(c.argv, <<<<"-R">>>>) + 1)

InvalidFlags ==
    \/ args.all /\ args.config # None
    \/ ~args.build /\ ~args.test

SelectionMode == ~InvalidFlags /\ ~args.all /\ args.config # None

\* C1: with invalid flags (both --all and --config, or neither --build nor
\* --test) the script is either not yet past its argument check or has
\* exited with a non-zero status, and in all those states no external
\* process was invoked and TestMakeFile was not written.
C1_InvalidFlagsFatalBeforeAnyCall ==
    InvalidFlags =>
        /\ pc \in {"start", "exit"}
        /\ pc = "exit" => exitCode # 0
        /\ calls = <<>>
        /\ makeFile = <<>>

C1_Witness ==
    /\ args.all /\ args.config # None /\ args.build /\ args.test
    /\ pc = "exit" /\ exitCode # 0

\* C2: no build call follows a test call; when both phases are requested
\* and there is something to build, a test call is preceded by a build call
\* that exited with zero; a call that exited non-zero is the last call and
\* the script has exited non-zero; no tool is invoked twice; a run that
\* ends with status zero made both calls.
C2_FailFastOrdering ==
    /\ \A i, j \in 1..Len(calls) :
            IsTestCall(calls[i]) /\ IsBuildCall(calls[j]) => j < i
    /\ \A i \in 1..Len(calls) :
            calls[i].rc # 0 => i = Len(calls) /\ pc = "exit" /\ exitCode # 0
    /\ Cardinality(BuildCalls) <= 1 /\ Cardinality(TestCalls) <= 1
    /\ (args.build /\ args.test /\ (args.all \/ config # <<>>)) =>
            /\ TestCalls # {} =>
                    /\ Len(calls) = 2
                    /\ IsBuildCall(calls[1]) /\ calls[1].rc = 0
                    /\ IsTestCall(calls[2])
            /\ (pc = "exit" /\ exitCode = 0) =>
                    Cardinality(BuildCalls) = 1 /\ Cardinality(TestCalls) = 1

C2_Witness ==
    /\ args.build /\ args.test /\ ~args.all /\ config # <<>>
    /\ pc = "exit" /\ exitCode # 0
    /\ Len(calls) = 1 /\ IsBuildCall(calls[1]) /\ calls[1].rc # 0

\* C3: in selection mode, with an empty selection no build call is made and
\* TestMakeFile is not written, every test call has the filter NOOP and a
\* finished run with --test made exactly one test call; with a non-empty
\* selection the filter of a test call is the list of the selected test
\* names, in the order of the file, and NOOP is not among them.
C3_EmptySelectionNoop ==
    SelectionMode =>
        IF configFile = <<>>
        THEN /\ BuildCalls = {}
             /\ makeFile = <<>>
             /\ \A i \in TestCalls : FilterOf(calls[i]) = <<<<"NOOP">>>>
             /\ (pc = "exit" /\ args.test) => Cardinality(TestCalls) = 1
        ELSE \A i \in TestCalls :
                /\ FilterOf(calls[i]) = [k \in 1..Len(configFile) |-> configFile[k].name]
                /\ <<"NOOP">> \notin Range(FilterOf(calls[i]))

C3_Witness ==
    /\ SelectionMode /\ configFile = <<>> /\ args.build /\ args.test
    /\ pc = "exit" /\ Len(calls) = 1 /\ FilterOf(calls[1]) = <<<<"NOOP">>>>

(***************************************************************************)
(* .gitlab-ci/makepipelineconfig.py                                        *)
(***************************************************************************)
DefaultIndentation == 4

\* argparse: the default of --indentation is the integer 4; a value given
\* on the command line is kept as the string it was typed as (no type=int)
IndentationArgs ==
    {[type |-> "int", value |-> DefaultIndentation]}
        \cup {[type |-> "str", value |-> n] : n \in 0..MaxIndent}

Templates ==
    {<<"build:\n", "$build_script", "\ntest:\n", "$test_script", "\n">>,
     <<"$test_script", "\n", "$build_script">>}

OldYml == <<"<previous pipeline>">>

GenInit ==
    /\ pc = "start"
    /\ args \in [outfile : {<<"pipeline.yml">>}, testconfig : {None, <<"tests.json">>},
                 template : {<<".gitlab-ci/default.yml.template">>},
                 indentation : IndentationArgs]
    /\ configFile \in Configs
    /\ config = <<>>
    /\ exitCode = 0
    /\ calls = <<>> /\ makeFile = <<>>
    /\ buildCommand = <<>> /\ testCommand = <<>>
    /\ template \in Templates \cup {None}
    /\ ymlFile = OldYml
    /\ file = <<>> /\ lineIdx = 0 /\ parameters = <<>> /\ errors = <<>>
    /\ sortedParameterDict = <<>> /\ tableEntries = <<>>
    /\ string = <<>> /\ keys = <<>> /\ result = NoResult

\* line 39: ' '*args['indentation'], defined for an integer only
commandIndentation == Spaces(args.indentation.value)

\* line 40
duneConfigCommand == <<"dunecontrol --opts=$DUNE_OPTS_FILE --current all">>

\* lines 43-45
makeScriptString(commands) ==
    Join([i \in 1..Len(commands) |-> commandIndentation \o <<"- ">> \o commands[i]],
         <<"\n">>)

\* lines 39-41: the indentation string, then open(outfile, 'w'); the product
\* of a string and a string raises TypeError before the file is opened
OpenOutfile ==
    /\ pc = "start"
    /\ IF args.indentation.type = "int"
       THEN pc' = "commands" /\ exitCode' = exitCode /\ ymlFile' = <<>>
       ELSE pc' = "exit" /\ exitCode' = 1 /\ ymlFile' = ymlFile
    /\ UNCHANGED <<args, configFile, config, runnerVars, buildCommand, testCommand,
                   template, scanVars, renderVars, encVars>>

\* lines 49-52: no configuration given
BuildAllCommand ==
    <<duneConfigCommand,
      <<"dunecontrol --opts=$DUNE_OPTS_FILE --current ", "make", " -k -j4 build_tests">>>>
TestAllCommand ==
    <<<<"cd build-cmake">>, <<"dune-ctest", " -j4 --output-on-failure">>>>

\* (mutation: the targets are joined in reverse order)
AggregateTargetLineReversed(targetNames) ==
    <<"|\n">> \o commandIndentation \o <<"  echo \"build_selected_tests: ">>
        \o Join([i \in 1..Len(targetNames) |-> targetNames[Len(targetNames) + 1 - i]],
                <<" ">>)
        \o <<"\" >> TestMakefile">>

\* lines 77-80: the command that appends the aggregate target to TestMakefile
AggregateTargetLine(targetNames) ==
    <<"|\n">> \o commandIndentation \o <<"  echo \"build_selected_tests: ">>
        \o Join(targetNames, <<" ">>) \o <<"\" >> TestMakefile">>

\* (mutation: the test for an empty selection is missing)
SelectionBuildCommandAlways(targetNames) ==
    <<duneConfigCommand,
      <<"cd build-cmake">>,
      <<"rm -f TestMakefile && touch TestMakefile">>,
      <<"echo \"include CMakeFiles/Makefile2\" >> TestMakefile">>,
      <<"echo \"\" >> TestMakefile">>,
      AggregateTargetLine(targetNames),
      <<"make", " -f TestMakefile -j4 build_selected_tests">>>>

\* lines 62-81
SelectionBuildCommand(targetNames) ==
    IF targetNames = <<>>
    THEN <<duneConfigCommand, <<"echo \"No tests to be built.\"">>>>
    ELSE <<duneConfigCommand,
           <<"cd build-cmake">>,
           <<"rm -f TestMakefile && touch TestMakefile">>,
           <<"echo \"include CMakeFiles/Makefile2\" >> TestMakefile">>,
           <<"echo \"\" >> TestMakefile">>,
           AggregateTargetLine(targetNames),
           <<"make", " -f TestMakefile -j4 build_selected_tests">>>>

\* lines 83-90
SelectionTestCommand(testNames) ==
    IF testNames = <<>>
    THEN <<<<"echo \"No tests to be run, make empty report.\"">>,
           <<"cd build-cmake">>,
           <<"dune-ctest", " -R ", "NOOP">>>>
    ELSE <<<<"cd build-cmake">>,
           <<"dune-ctest", " -j4 --output-on-failure", " -R ">>
               \o Join(testNames, <<" ">>)>>

\* lines 47-90: choose the build and the test command lists
MakeCommands ==
    /\ pc = "commands"
    /\ IF args.testconfig = None
       THEN /\ buildCommand' = BuildAllCommand
            /\ testCommand' = TestAllCommand
            /\ config' = config
       ELSE /\ config' = configFile
            /\ buildCommand' = SelectionBuildCommand(ConfigTargets(configFile))
            /\ testCommand' = SelectionTestCommand(ConfigKeys(configFile))
    /\ pc' = "write"
    /\ UNCHANGED <<args, configFile, exitCode, runnerVars, template, ymlFile,
                   scanVars, renderVars, encVars>>

\* string.Template(raw).substitute(**mapping) for the two placeholders
Substitute(raw, mapping) ==
    Concat([i \in 1..Len(raw) |->
              IF raw[i] = "$build_script" THEN mapping.build_script
              ELSE IF raw[i] = "$test_script" THEN mapping.test_script
              ELSE <<raw[i]>>])

\* lines 92-93 and substituteAndWrite (28-36)
SubstituteAndWrite ==
    /\ pc = "write"
    /\ IF template = None
       THEN exitCode' = 1 /\ ymlFile' = ymlFile
       ELSE /\ exitCode' = exitCode
            /\ ymlFile' = Substitute(template,
                              [build_script |-> makeScriptString(buildCommand),
                               test_script |-> makeScriptString(testCommand)])
    /\ pc' = "exit"
    /\ UNCHANGED <<args, configFile, config, runnerVars, buildCommand, testCommand,
                   template, scanVars, renderVars, encVars>>

GenNext ==
    \/ OpenOutfile
    \/ MakeCommands
    \/ SubstituteAndWrite

SpecGen == GenInit /\ [][GenNext]_vars

(***************************************************************************)
(* Claims about the pipeline generator.                                    *)
(***************************************************************************)
\* the command lists have been chosen
CommandsMade == pc = "write" \/ (pc = "exit" /\ args.indentation.type = "int")

\* the run ended with the output file written
Written == pc = "exit" /\ exitCode = 0

\* a list of one-token names with a single space between neighbours
SpaceJoined(list) ==
    [k \in 1..(2 * Len(list) - 1) |->
        IF k % 2 = 1 THEN list[(k + 1) \div 2][1] ELSE " "]

\* s ends with tail
EndsWith(s, tail) ==
    Len(tail) <= Len(s) /\ SubSeq(s, Len(s) - Len(tail) + 1, Len(s)) = tail

SelectedTargets == [k \in 1..Len(configFile) |-> configFile[k].target]
SelectedNames == [k \in 1..Len(configFile) |-> configFile[k].name]

ExpectedAggregate ==
    <<"|\n">> \o Spaces(args.indentation.value)
        \o <<"  echo \"build_selected_tests: ">> \o SpaceJoined(SelectedTargets)
        \o <<"\" >> TestMakefile">>

ExpectedFilter == <<" -R ">> \o SpaceJoined(SelectedNames)

\* C4: with a non-empty selection the build command list holds the line
\* that writes the aggregate target build_selected_tests followed by the
\* targets of the selection, space-joined in the order of the file, and the
\* next line is the make command for that target; one test command line
\* ends with -R followed by the selected test names, space-joined in the
\* same order; both texts are in the written output file.
C4_SelectionBlocksInOrder ==
    (CommandsMade /\ args.testconfig # None /\ configFile # <<>>) =>
        /\ \E i \in 1..(Len(buildCommand) - 1) :
              /\ buildCommand[i] = ExpectedAggregate
              /\ buildCommand[i + 1] =
                    <<"make", " -f TestMakefile -j4 build_selected_tests">>
        /\ \E j \in 1..Len(testCommand) :
              /\ Head(testCommand[j]) = "dune-ctest"
              /\ EndsWith(testCommand[j], ExpectedFilter)
        /\ (Written /\ template # None) =>
              /\ Contains(ymlFile, ExpectedAggregate)
              /\ Contains(ymlFile, ExpectedFilter)

C4_Witness ==
    /\ Written /\ template # None /\ args.testconfig # None
    /\ configFile = <<[name |-> <<"T2">>, target |-> <<"Y">>],
                      [name |-> <<"T1">>, target |-> <<"X">>]>>
    /\ Contains(ymlFile, <<"Y", " ", "X">>) /\ Contains(ymlFile, <<"T2", " ", "T1">>)

\* C5: with a selection file that has no entries, the only test command
\* line that calls the test tool is dune-ctest -R NOOP, and the build
\* command list is the configuration command followed by an echo: no line
\* of it names make or the aggregate target.
C5_EmptySelectionBlocks ==
    (CommandsMade /\ args.testconfig # None /\ configFile = <<>>) =>
        /\ \A j \in 1..Len(testCommand) :
              Contains(testCommand[j], <<"dune-ctest">>) =>
                  testCommand[j] = <<"dune-ctest", " -R ", "NOOP">>
        /\ Cardinality({j \in 1..Len(testCommand) :
                            Contains(testCommand[j], <<"dune-ctest">>)}) = 1
        /\ Len(buildCommand) = 2
        /\ buildCommand[1] = <<"dunecontrol --opts=$DUNE_OPTS_FILE --current all">>
        /\ buildCommand[2] = <<"echo \"No tests to be built.\"">>
        /\ \A i \in 1..Len(buildCommand) :
              /\ ~Contains(buildCommand[i], <<"make">>)
              /\ ~Contains(buildCommand[i], <<"  echo \"build_selected_tests: ">>)
        /\ (Written /\ template # None) =>
              /\ Contains(ymlFile, <<"dune-ctest", " -R ", "NOOP">>)
              /\ ~Contains(ymlFile, <<"make">>)

C5_Witness ==
    /\ Written /\ template # None /\ args.testconfig # None /\ configFile = <<>>
    /\ Contains(ymlFile, <<"dune-ctest", " -R ", "NOOP">>)

\* the block of a command list: every command after n spaces and '- ',
\* the lines separated by newlines
ExpectedBlock(n, commands) ==
    Join([i \in 1..Len(commands) |-> Spaces(n) \o <<"- ">> \o commands[i]], <<"\n">>)

\* C9: for every indentation width, the default as well as one given with
\* --indentation, a run with an existing template ends with status zero and
\* the output file is the template with each placeholder replaced by its
\* block, every command line of a block after exactly n spaces and '- '.
C9_AnyIndentationApplied ==
    (pc = "exit" /\ template # None) =>
        /\ exitCode = 0
        /\ buildCommand # <<>> /\ testCommand # <<>>
        /\ ymlFile =
              Concat([i \in 1..Len(template) |->
                  IF template[i] = "$build_script"
                  THEN ExpectedBlock(args.indentation.value, buildCommand)
                  ELSE IF template[i] = "$test_script"
                  THEN ExpectedBlock(args.indentation.value, testCommand)
                  ELSE <<template[i]>>])

\* the same for the default width alone
C9_DefaultIndentationApplied == args.indentation.type = "int" => C9_AnyIndentationApplied

(***************************************************************************)
(* bin/doc/getparameterlist.py : getEnclosedContent                        *)
(***************************************************************************)
Returned(v) == [kind |-> "ok", value |-> v]
Raised(e) == [kind |-> e, value |-> <<>>]

\* lines 19-22: extend result up to the next closeKey until it holds as many
\* openKey as closeKey; IOError when no closeKey is left
RECURSIVE MatchingPair(_, _, _, _)
MatchingPair(res, rest, openKey, closeKey) ==
    IF Count(res, openKey) = Count(res, closeKey)
    THEN Returned(res)
    ELSE Only({IF next[2] = <<>>
               THEN Raised("IOError")
               ELSE Only({MatchingPair(longer, next[3], openKey, closeKey) :
                          longer \in {res \o next[1] \o closeKey}}) :
               next \in {Partition(rest, closeKey)}})

\* lines 11-24; openKey and closeKey are strings of one character
getEnclosedContent(str, openKey, closeKey) ==
    Only({Only({IF pair.kind # "ok"
                THEN pair
                ELSE Returned(RPartition(Partition(pair.value, openKey)[3], closeKey)[1]) :
                pair \in {MatchingPair(first[1] \o closeKey, first[3], openKey, closeKey)}}) :
          first \in {Partition(openKey \o Partition(str, openKey)[3], closeKey)}})

Alphabet == {"<", ">", "(", ")", "x"}
KeyPairs == {<<<<"<">>, <<">">>>>, <<<<"(">>, <<")">>>>}

EnclosedInit ==
    /\ pc = "start"
    /\ string \in SeqUpTo(Alphabet, MaxStrLen)
    /\ keys \in KeyPairs
    /\ result = NoResult
    /\ args = <<>> /\ configFile = <<>> /\ config = <<>> /\ exitCode = 0
    /\ calls = <<>> /\ makeFile = <<>>
    /\ buildCommand = <<>> /\ testCommand = <<>> /\ template = None /\ ymlFile = <<>>
    /\ file = <<>> /\ lineIdx = 0 /\ parameters = <<>> /\ errors = <<>>
    /\ sortedParameterDict = <<>> /\ tableEntries = <<>>

\* one call of the function
CallGetEnclosedContent ==
    /\ pc = "start"
    /\ result' = getEnclosedContent(string, keys[1], keys[2])
    /\ pc' = "exit"
    /\ UNCHANGED <<args, configFile, config, exitCode, runnerVars, genVars, scanVars,
                   renderVars, string, keys>>

EnclosedNext == CallGetEnclosedContent

SpecEnclosed == EnclosedInit /\ [][EnclosedNext]_vars

(***************************************************************************)
(* Claim about getEnclosedContent.                                         *)
(***************************************************************************)
\* number of i in lo..hi with s[i] = c
Occurrences(s, c, lo, hi) == Cardinality({i \in lo..hi : s[i] = c})

\* positions of closeKey after the first openKey at which as many openKey as
\* closeKey were seen, counted from the first openKey
BalancePoints(s, o, c) ==
    LET first == Find(s, <<o>>)
    IN IF first = 0 THEN {}
       ELSE {j \in (first + 1)..Len(s) :
                s[j] = c /\ Occurrences(s, o, first, j) = Occurrences(s, c, first, j)}

\* what the claim says the function yields
EnclosedReference(s, o, c) ==
    LET first == Find(s, <<o>>)
        points == BalancePoints(s, o, c)
    IN IF points = {}
       THEN Raised("IOError")
       ELSE LET j == CHOOSE j \in points : \A k \in points : j <= k
            IN Returned(SubSeq(s, first + 1, j - 1))

\* C10: getEnclosedContent returns the text strictly between the first open
\* delimiter and the earliest close delimiter that balances it, and raises
\* IOError when the string holds no open delimiter or the first open
\* delimiter is never balanced.
C10_EnclosedContentOrError ==
    pc = "exit" => result = EnclosedReference(string, keys[1][1], keys[2][1])

\* the part of C10 about strings whose first open delimiter is balanced
C10_BalancedPart ==
    (pc = "exit" /\ BalancePoints(string, keys[1][1], keys[2][1]) # {}) =>
        result = EnclosedReference(string, keys[1][1], keys[2][1])

\* the error is raised only for a string without a balance point
C10_ErrorOnlyUnbalanced ==
    (pc = "exit" /\ result.kind = "IOError") =>
        BalancePoints(string, keys[1][1], keys[2][1]) = {}

(***************************************************************************)
(* bin/doc/getparameterlist.py : extractParamName and getParamsFromFile    *)
(***************************************************************************)
Q == "\""    \* the double quote character

\* lines 31-38: the text after the first accessor name, and whether the
\* accessor is the one that takes a group
MarkerSplit(line) ==
    IF Contains(line, <<"getParam", "FromGroup", "<">>)
    THEN [found |-> TRUE, hasGroup |-> TRUE,
          line |-> Split(line, <<"getParam", "FromGroup">>)[2]]
    ELSE IF Contains(line, <<"getParam", "<">>)
    THEN [found |-> TRUE, hasGroup |-> FALSE,
          line |-> Split(line, <<"getParam">>)[2]]
    ELSE [found |-> FALSE, hasGroup |-> FALSE, line |-> <<>>]

\* line 41: the test for several accessor calls on the line
MultipleOccurrences(rest) == Count(rest, <<"getParam">>) > 1

\* line 45: line.strip('\n').strip(' ').split(';')[0]
CallText(rest) == Split(Strip(Strip(rest, {"\n"}), {" "}), <<";">>)[1]

\* lines 54-61: name and default value out of the function arguments
NameAndDefault(functionArgs, hasGroup) ==
    Only({[paramName |-> Strip(parts[1], {" "}),
           defaultValue |-> IF parts[3] = <<>> THEN None ELSE Strip(parts[3], {" "})] :
          parts \in {Partition(IF hasGroup THEN Partition(functionArgs, <<",">>)[3]
                                ELSE functionArgs,
                               <<",">>)}})

\* line 64: the condition under which the name is refused; paramName[0] of
\* an empty string raises IndexError before anything is compared
NameRefused(paramName) ==
    paramName[1] # Q \/ paramName[Len(paramName)] # Q \/ " " \in Range(paramName)

\* lines 31-57: the call as it is read off the line, before the name is
\* looked at: kind none (no accessor), the exception raised, or kind call.
\* Read from the bottom: m is the split at the accessor, text the call up
\* to the semicolon, type the template argument, fargs the arguments.
ParsedCall(line) ==
    Only({
      IF ~m.found THEN [kind |-> "none"]
      ELSE IF MultipleOccurrences(m.line)
      THEN [kind |-> "IOError", message |-> "Cannot process multiple occurrences"]
      ELSE Only({
        Only({
          IF type.kind # "ok"
          THEN [kind |-> "IOError", message |-> "Could not get content"]
          ELSE Only({
            IF fargs.kind # "ok"
            THEN [kind |-> "IOError", message |-> "Could not get content"]
            ELSE Only({
              [kind |-> "call",
               paramType |-> Strip(type.value, {" "}),
               paramName |-> nd.paramName,
               defaultValue |-> nd.defaultValue] :
              nd \in {NameAndDefault(fargs.value, m.hasGroup)}}) :
            fargs \in {getEnclosedContent(
                          Partition(text, <<"<">> \o type.value \o <<">">>)[3],
                          <<"(">>, <<")">>)}}) :
          type \in {getEnclosedContent(text, <<"<">>, <<">">>)}}) :
        text \in {CallText(m.line)}}) :
      m \in {MarkerSplit(line)}})

\* lines 27-67: {} (kind none), the parameter record, or the exception raised
extractParamName(line) ==
    Only({
      IF c.kind # "call" THEN c
      ELSE IF c.paramName = <<>> THEN [kind |-> "IndexError"]
      ELSE IF NameRefused(c.paramName)
      THEN [kind |-> "IOError", message |-> "Could not correctly process parameter name"]
      ELSE [kind |-> "param",
            paramType |-> c.paramType,
            paramName |-> Strip(c.paramName, {Q}),
            defaultValue |-> c.defaultValue] :
      c \in {ParsedCall(line)}})

\* the accessor calls a source line is composed of
AccessorCalls ==
    {<<"getParam", "<", "int", ">", "(", Q, "A", Q, ")", ";">>,
     <<"getParam", "FromGroup", "<", "T", "<", "int", ">", ">",
       "(", "g", ",", " ", Q, "B", Q, ",", " ", "1", ")", ";">>,
     <<"getParam", "<", "int", ">", "(", ")", ";">>,
     <<"getParam", "<", "int", ">", "(", "x", " ", "y", ")", ";">>,
     <<"getParam", "<", "int", ">", "(">>,
     <<"getParam", "<", "T", "<", "int", ">", "(", Q, "A", Q, ")", ";">>}

\* the lines of a header file: plain text, or up to MaxCalls accessor calls
SourceLines ==
    {<<"x", ";", "\n">>}
        \cup {<<" ">> \o Join(cs, <<" ">>) \o <<"\n">> :
                cs \in SeqUpTo(AccessorCalls, MaxCalls) \ {<<>>}}

ScanInit ==
    /\ pc = "scan"
    /\ file = <<>> /\ lineIdx = 0 /\ parameters = <<>> /\ errors = <<>>
    /\ exitCode = 0
    /\ args = <<>> /\ configFile = <<>> /\ config = <<>>
    /\ calls = <<>> /\ makeFile = <<>>
    /\ buildCommand = <<>> /\ testCommand = <<>> /\ template = None /\ ymlFile = <<>>
    /\ sortedParameterDict = <<>> /\ tableEntries = <<>>
    /\ string = <<>> /\ keys = <<>> /\ result = NoResult

\* lines 74-79: one turn of the loop of getParamsFromFile over the next line
\* of the file; IOError is caught and recorded, any other exception leaves
\* the function and ends the script
ScanLine ==
    /\ pc = "scan"
    /\ lineIdx < MaxLines
    /\ \E line \in SourceLines : \E param \in {extractParamName(line)} :
           /\ file' = Append(file, line)
           /\ IF param.kind = "IndexError"
              THEN /\ pc' = "exit" /\ exitCode' = 1
                   /\ UNCHANGED <<lineIdx, parameters, errors>>
              ELSE /\ pc' = pc /\ exitCode' = exitCode
                   /\ lineIdx' = lineIdx + 1
                   /\ parameters' =
                        IF param.kind = "param"
                        THEN Append(parameters,
                                    [paramType |-> param.paramType,
                                     paramName |-> param.paramName,
                                     defaultValue |-> param.defaultValue])
                        ELSE parameters
                   /\ errors' =
                        IF param.kind = "IOError"
                        THEN [i \in DOMAIN errors \cup {lineIdx} |->
                                IF i = lineIdx
                                THEN [line |-> Strip(line, {" ", "\n"}),
                                      message |-> param.message]
                                ELSE errors[i]]
                        ELSE errors
    /\ UNCHANGED <<args, configFile, config, runnerVars, genVars, renderVars, encVars>>

\* lines 81-88: the file is exhausted; the errors are printed and the list
\* of parameters is returned
EndOfFile ==
    /\ pc = "scan"
    /\ pc' = "returned"
    /\ UNCHANGED <<args, configFile, config, exitCode, runnerVars, genVars, scanVars,
                   renderVars, encVars>>

ScanNext ==
    \/ ScanLine
    \/ EndOfFile

SpecScan == ScanInit /\ [][ScanNext]_vars

(***************************************************************************)
(* Claims about the line scan of the parameter scraper.                    *)
(***************************************************************************)
\* occurrences of getParam< and getParamFromGroup< on a line
MarkerCount(line) ==
    Count(line, <<"getParam", "<">>) + Count(line, <<"getParam", "FromGroup", "<">>)

\* line i of the file is in errors, under its index and with its text
RecordedAsError(i) ==
    /\ (i - 1) \in DOMAIN errors
    /\ errors[i - 1].line = Strip(file[i], {" ", "\n"})

\* the scan was ended by an exception that getParamsFromFile does not catch
Aborted == pc = "exit" /\ exitCode # 0

\* C6: every line read so far that holds more than one accessor marker is
\* recorded as an error under its index, the scan was not aborted, and the
\* records collected are no more than the lines with exactly one marker.
C6_MultipleMarkersRecorded ==
    /\ \A i \in 1..Len(file) : MarkerCount(file[i]) > 1 => RecordedAsError(i)
    /\ (\E i \in 1..Len(file) : MarkerCount(file[i]) > 1) => ~Aborted
    /\ Len(parameters) <= Cardinality({i \in 1..Len(file) : MarkerCount(file[i]) = 1})

\* a double-quoted literal without whitespace
QuotedLiteral(name) ==
    /\ Len(name) >= 2 /\ name[1] = Q /\ name[Len(name)] = Q
    /\ " " \notin Range(name)

\* the accessor call of line i was read and its name field is no quoted literal
BadName(i) ==
    ParsedCall(file[i]).kind = "call" /\ ~QuotedLiteral(ParsedCall(file[i]).paramName)

\* C7: every line read so far whose name field is not a quoted literal
\* without whitespace, the empty name field included, is recorded as an
\* error with its index and its text, the scan was not aborted, and the
\* records collected are no more than the lines whose name field is a
\* quoted literal.
C7_BadNameRecorded ==
    /\ \A i \in 1..Len(file) : BadName(i) => RecordedAsError(i)
    /\ (\E i \in 1..Len(file) : BadName(i)) => ~Aborted
    /\ Len(parameters) <=
          Cardinality({i \in 1..Len(file) :
                          ParsedCall(file[i]).kind = "call" /\ ~BadName(i)})

\* the part of C7 about name fields that are not empty
C7_NonEmptyBadNameRecorded ==
    /\ \A i \in 1..Len(file) :
          (BadName(i) /\ ParsedCall(file[i]).paramName # <<>>) => RecordedAsError(i)
    /\ Aborted => ParsedCall(file[Len(file)]).paramName = <<>>
    /\ Len(parameters) <=
          Cardinality({i \in 1..Len(file) :
                          ParsedCall(file[i]).kind = "call" /\ ~BadName(i)})

\* a line on which the code does find several accessors
C6_DetectedCase ==
    \E i \in 1..Len(file) :
        /\ (i - 1) \in DOMAIN errors
        /\ errors[i - 1].message = "Cannot process multiple occurrences"

(***************************************************************************)
(* bin/doc/getparameterlist.py : the parameter dictionary and the table    *)
(***************************************************************************)
\* code point of the characters parameter names are made of
CodePoint(ch) ==
    CASE ch = "-" -> 45
      [] ch = "." -> 46
      [] ch = "A" -> 65
      [] ch = "C" -> 67
      [] ch = "X" -> 88
      [] ch = "Y" -> 89

\* a < b for Python strings
RECURSIVE StrLess(_, _)
StrLess(a, b) ==
    IF b = <<>> THEN FALSE
    ELSE IF a = <<>> THEN TRUE
    ELSE IF Head(a) # Head(b) THEN CodePoint(Head(a)) < CodePoint(Head(b))
    ELSE StrLess(Tail(a), Tail(b))

\* sorted(names)
RECURSIVE Sorted(_)
Sorted(names) ==
    IF names = {} THEN <<>>
    ELSE LET least == CHOOSE n \in names : \A m \in names \ {n} : StrLess(n, m)
         IN <<least>> \o Sorted(names \ {least})

\* lines 102-110: merge the records of one name, the first record first
RECURSIVE MergeParams(_, _)
MergeParams(dict, params) ==
    IF params = <<>> THEN dict
    ELSE LET p == Head(params)
             key == p.paramName
             merged ==
                IF key \in DOMAIN dict
                THEN [dict EXCEPT ![key].defaultValue = Append(@, p.defaultValue),
                                  ![key].paramType = Append(@, p.paramType)]
                ELSE [k \in DOMAIN dict \cup {key} |->
                        IF k = key
                        THEN [paramName |-> key,
                              paramType |-> <<p.paramType>>,
                              defaultValue |-> <<p.defaultValue>>]
                        ELSE dict[k]]
         IN MergeParams(merged, Tail(params))

\* line 111: the entries in the order of their keys
SortedEntries(dict) ==
    LET order == Sorted(DOMAIN dict)
    IN [i \in 1..Len(order) |-> dict[order[i]]]

\* line 132: ' * | {} | {} | {} | {} | TODO: explanation |'.format(...)
TableEntry(groupEntry, paramName, paramType, defaultValue) ==
    <<" * | ">> \o groupEntry \o <<" | ">> \o paramName \o <<" | ">> \o paramType
        \o <<" | ">> \o defaultValue \o <<" | TODO: explanation |">>

\* (mutation: the label is marked on every row, previousGroupEntry is not consulted)
ShownGroupEntryAlwaysMarked(groupEntry, hasGroup, previousGroupEntry) ==
    IF hasGroup THEN <<"\\b ">> \o groupEntry ELSE groupEntry

\* lines 128-130: the group column of a row
ShownGroupEntry(groupEntry, hasGroup, previousGroupEntry) ==
    IF groupEntry # previousGroupEntry /\ hasGroup
    THEN <<"\\b ">> \o groupEntry
    ELSE groupEntry

\* lines 117-138: the loop over the sorted entries; the rows without a
\* group come first in the result
RECURSIVE RenderEntries(_, _, _, _)
RenderEntries(entries, previousGroupEntry, withGroup, withoutGroup) ==
    IF entries = <<>> THEN withoutGroup \o withGroup
    ELSE LET entry == Head(entries)
             hasGroup == Count(entry.paramName, <<".">>) # 0
             groupEntry == IF ~hasGroup THEN <<"-">>
                           ELSE Split(entry.paramName, <<".">>)[1]
             paramName == IF ~hasGroup THEN entry.paramName
                          ELSE Partition(entry.paramName, <<".">>)[3]
             paramType == entry.paramType[1]
             defaultValue == IF entry.defaultValue[1] # None
                             THEN entry.defaultValue[1] ELSE <<>>
             row == TableEntry(ShownGroupEntry(groupEntry, hasGroup, previousGroupEntry),
                               paramName, paramType, defaultValue)
         IN RenderEntries(Tail(entries), groupEntry,
                          IF hasGroup THEN Append(withGroup, row) ELSE withGroup,
                          IF hasGroup THEN withoutGroup ELSE Append(withoutGroup, row))

\* the names, types and default values the scan can hand over
ParamNames ==
    {<<"A">>, <<"-">>, <<"C">>}
        \cup {g \o <<".">> \o n : g \in {<<"A">>, <<"-">>},
                                 n \in {<<"X">>, <<"Y">>, <<"X", ".", "Y">>}}
ParamRecords ==
    {[paramType |-> t.type, paramName |-> n, defaultValue |-> t.default] :
        n \in ParamNames,
        t \in {[type |-> <<"int">>, default |-> None],
               [type |-> <<"double">>, default |-> <<"1">>]}}

RenderInit ==
    /\ pc = "dict"
    /\ parameters \in SeqUpTo(ParamRecords, MaxParams)
    /\ sortedParameterDict = <<>> /\ tableEntries = <<>>
    /\ exitCode = 0
    /\ file = <<>> /\ lineIdx = 0 /\ errors = <<>>
    /\ args = <<>> /\ configFile = <<>> /\ config = <<>>
    /\ calls = <<>> /\ makeFile = <<>>
    /\ buildCommand = <<>> /\ testCommand = <<>> /\ template = None /\ ymlFile = <<>>
    /\ string = <<>> /\ keys = <<>> /\ result = NoResult

\* lines 101-111
MakeSortedDict ==
    /\ pc = "dict"
    /\ sortedParameterDict' = SortedEntries(MergeParams(<<>>, parameters))
    /\ pc' = "table"
    /\ UNCHANGED <<args, configFile, config, exitCode, runnerVars, genVars, scanVars,
                   tableEntries, encVars>>

\* lines 113-138
RenderTable ==
    /\ pc = "table"
    /\ tableEntries' = RenderEntries(sortedParameterDict, None, <<>>, <<>>)
    /\ pc' = "backup"
    /\ UNCHANGED <<args, configFile, config, exitCode, runnerVars, genVars, scanVars,
                   sortedParameterDict, encVars>>

\* line 141: copyfile is neither defined nor imported, the call raises
\* NameError and the script ends before the list is written
BackupOldList ==
    /\ pc = "backup"
    /\ pc' = "exit" /\ exitCode' = 1
    /\ UNCHANGED <<args, configFile, config, runnerVars, genVars, scanVars,
                   renderVars, encVars>>

RenderNext ==
    \/ MakeSortedDict
    \/ RenderTable
    \/ BackupOldList

SpecRender == RenderInit /\ [][RenderNext]_vars

(***************************************************************************)
(* Claim about the rendering of the table.                                 *)
(***************************************************************************)
Rendered == pc \in {"backup", "exit"}

\* the prefix of a name before its first '.', for a name that has one
GroupOf(name) ==
    SubSeq(name, 1, (CHOOSE i \in 1..Len(name) :
                        name[i] = "." /\ \A j \in 1..(i - 1) : name[j] # ".") - 1)

HasDot(name) == \E i \in 1..Len(name) : name[i] = "."

\* positions, in the sorted dictionary, of the entries with a group
GroupedPositions == {i \in 1..Len(sortedParameterDict) : HasDot(sortedParameterDict[i].paramName)}

\* the row of the entry at position i of the sorted dictionary
RowOf(i) ==
    LET grouped == HasDot(sortedParameterDict[i].paramName)
        before == Cardinality({j \in 1..(i - 1) :
                      HasDot(sortedParameterDict[j].paramName) = grouped})
        ungrouped == Len(sortedParameterDict) - Cardinality(GroupedPositions)
    IN tableEntries[IF grouped THEN ungrouped + before + 1 ELSE before + 1]

\* the group column of a row: the tokens between " * | " and the next " | "
GroupColumn(row) == Tail(Split(row, <<" | ">>)[1])

\* entry i belongs to the run of the entry before it
LaterRowOfRun(i) ==
    /\ i \in GroupedPositions /\ (i - 1) \in GroupedPositions
    /\ GroupOf(sortedParameterDict[i].paramName) =
          GroupOf(sortedParameterDict[i - 1].paramName)

\* C8 as stated: in a run of sorted-adjacent entries of one group, the rows
\* after the first do not print the group label.
C8_LabelOnlyOnFirstRow ==
    Rendered =>
        \A i \in GroupedPositions :
            LaterRowOfRun(i) =>
                ~Contains(GroupColumn(RowOf(i)), GroupOf(sortedParameterDict[i].paramName))

\* C8 as amended: every grouped row prints its group label; the rows after
\* the first of a run print the plain label, without the marker '\b '; the
\* first row of a run prints the marker before the label, unless the group
\* is named '-' and the entry before it in the sorted order has no group.
C8_MarkerOnlyOnFirstRow ==
    Rendered =>
        \A i \in GroupedPositions :
            LET group == GroupOf(sortedParameterDict[i].paramName)
                column == GroupColumn(RowOf(i))
                afterDash == /\ group = <<"-">> /\ i > 1
                             /\ (i - 1) \notin GroupedPositions
            IN IF LaterRowOfRun(i) \/ afterDash
               THEN column = group
               ELSE column = <<"\\b ">> \o group

C8_Witness ==
    /\ Rendered
    /\ \E i \in GroupedPositions :
          /\ LaterRowOfRun(i)
          /\ sortedParameterDict[i - 1].paramName = <<"A", ".", "X">>
          /\ sortedParameterDict[i].paramName = <<"A", ".", "Y">>
          /\ GroupColumn(RowOf(i - 1)) = <<"\\b ", "A">>
          /\ GroupColumn(RowOf(i)) = <<"A">>

====
